---- MODULE Spec2Model ----
(***************************************************************************)
(* Team-level match metrics of grinta: the time window selector            *)
(* (features/utils.py), the metric functions (features/metrics.py,         *)
(* features/spatial.py) and the segment aggregator and multi-segment       *)
(* orchestrator (features/aggregator.py).                                  *)
(*                                                                         *)
(* Representation.                                                         *)
(*   - A nullable cell is a tuple: <<>> is None/NaN, <<v>> is the value v. *)
(*   - An event table (pandas DataFrame) is a record                       *)
(*       [rows, cols, team_id_dtype]: the rows in table order, the set of  *)
(*     column names, and the dtype of the team_id column ("int64" or       *)
(*     "float64"; a numpy integer column cannot hold NaN).                 *)
(*   - Pitch coordinates are integers in hundredths (26.67 is 2667).       *)
(*   - Elapsed time is an integer number of milliseconds; a number of     *)
(*     minutes n (a float argument) is held as the integer 60 * n, so     *)
(*     that 10.5 minutes is 630.                                           *)
(*   - A timestamp cell is a record [wf, h, m, s, frac]: wf says whether   *)
(*     the text starts with digits:digits:digits, frac is the digit       *)
(*     string after the dot.                                               *)
(*   - A ratio a/b produced by the code is kept exact as <<a, b>>; the     *)
(*     rounded outputs are integers in units of the last decimal kept     *)
(*     (round(v, 4) is in 1/10000, round(v, 2) in 1/100).                  *)
(***************************************************************************)
EXTENDS Integers, Sequences, FiniteSets, TLC

VARIABLES
    df,     \* the event table handed to the call
    pc,     \* which call has returned ("start" before any call)
    args,   \* the arguments of the call, other than the table
    win,    \* the table returned by a window filter
    ret,    \* the value returned by a metric or aggregation call
    ret2,   \* the value returned by the follow-up call of a two-call scenario
    client  \* the fields of the ReasoningClient (None where no client is involved)

vars == <<df, pc, args, win, ret, ret2, client>>

----------------------------------------------------------------------------
(* Bounds of the model *)

MaxRows == 3
MaxSegRows == 2      \* rows of a table given to the multi-segment orchestrator
MaxSegments == 2     \* window specifications of one request
MaxSparseRows == 2   \* rows of a table that lacks some of the columns
MaxRetries == 3      \* largest configured max_retries of a ReasoningClient
MaxMatches == 3      \* matches of one pipeline run

----------------------------------------------------------------------------
(* Cells, rows, tables *)

None == <<>>
Some(v) == <<v>>
notna(c) == c # None
isna(c) == c = None

AllCols == {"team_id", "team_name", "type_name", "pass_outcome", "shot_outcome",
            "period", "timestamp", "x", "y", "end_x"}

HasCol(t, c) == c \in t.cols

\* DataFrame.empty: no rows or no columns
Empty(t) == Len(t.rows) = 0 \/ t.cols = {}

\* df[mask]: the rows whose mask entry is true, in table order, with the same
\* columns and dtypes; a mask is a boolean per row
Filter(t, mask) ==
    LET Keep(i) == mask[i]
        idx == SelectSeq([i \in DOMAIN t.rows |-> i], Keep)
    IN [t EXCEPT !.rows = [k \in DOMAIN idx |-> t.rows[idx[k]]]]


RECURSIVE SumSeq(_)
SumSeq(s) == IF s = <<>> THEN 0 ELSE Head(s) + SumSeq(Tail(s))

RECURSIVE SumFun(_, _)
SumFun(f, S) ==
    IF S = {} THEN 0
    ELSE LET k == CHOOSE e \in S : TRUE IN f[k] + SumFun(f, S \ {k})

\* sum(d.values()) of a dict
SumValues(d) == SumFun(d, DOMAIN d)

\* d.get(k, default)
Get(d, k, default) == IF k \in DOMAIN d THEN d[k] ELSE default

EmptyDict == [k \in {} |-> 0]

\* Series.value_counts().to_dict() of the team_id column: NaN is dropped, the
\* keys are the team ids that occur, the values their numbers of rows
value_counts(t) ==
    LET ids == { t.rows[i].team_id[1] :
                   i \in { j \in DOMAIN t.rows : notna(t.rows[j].team_id) } }
    IN [ tid \in ids |->
           Cardinality({ i \in DOMAIN t.rows : t.rows[i].team_id = Some(tid) }) ]

\* str(tid) of a team id read from the team_id column: "1" from an integer
\* column, "1.0" from a float column
StrOfColumnTid(t, tid) ==
    IF t.team_id_dtype = "float64" THEN ToString(tid) \o ".0" ELSE ToString(tid)

\* Python round(): the nearest integer to num/den, ties to even (num >= 0, den > 0)
RoundHalfEven(num, den) ==
    LET q == num \div den
        r == num % den
    IN IF 2 * r < den THEN q
       ELSE IF 2 * r > den THEN q + 1
       ELSE IF q % 2 = 0 THEN q ELSE q + 1

----------------------------------------------------------------------------
(* features/utils.py: time filtering *)

\* int(frac.ljust(3, "0")[:3]): the first three digits after the dot, padded
FracMillis(frac) ==
    LET d(i) == IF i <= Len(frac) THEN frac[i] ELSE 0
    IN d(1) * 100 + d(2) * 10 + d(3)

\* a conversion that places an unreadable timestamp at the nominal end of the
\* period instead of its start
timestamp_to_seconds_at_end(cell) ==
    IF isna(cell) \/ ~cell[1].wf THEN 2700 * 1000
    ELSE LET ts == cell[1]
         IN (ts.h * 3600 + ts.m * 60 + ts.s) * 1000
            + (IF ts.frac # <<>> THEN FracMillis(ts.frac) ELSE 0)

\* _timestamp_to_seconds, in milliseconds
timestamp_to_seconds(cell) ==
    IF isna(cell) THEN 0
    ELSE IF ~cell[1].wf THEN 0
    ELSE LET ts == cell[1]
             secs == ts.h * 3600 + ts.m * 60 + ts.s
         IN IF ts.frac # <<>> THEN secs * 1000 + FracMillis(ts.frac) ELSE secs * 1000

PeriodIs(t, period) == [i \in DOMAIN t.rows |-> t.rows[i].period = Some(period)]

\* a filter that takes `period` as the ordinal of the period among those present
filter_by_period_ordinal(t, period) ==
    LET present == { t.rows[i].period[1] :
                       i \in { j \in DOMAIN t.rows : notna(t.rows[j].period) } }
    IN Filter(t, [i \in DOMAIN t.rows |->
                    /\ notna(t.rows[i].period)
                    /\ Cardinality({ q \in present : q <= t.rows[i].period[1] }) = period])

filter_by_period(t, period) ==
    IF ~HasCol(t, "period") THEN t
    ELSE Filter(t, PeriodIs(t, period))

MinPeriodSeconds == 2700

MaxOf(S) == CHOOSE e \in S : \A o \in S : o <= e
MinOf(S) == CHOOSE e \in S : \A o \in S : e <= o

\* `use_period = period if period is not None else max(periods)`
UsePeriodMin(period, periods) == IF notna(period) THEN period[1] ELSE MinOf(periods)
UsePeriod(period, periods) == IF notna(period) THEN period[1] ELSE MaxOf(periods)

\* `period_length_seconds = max(period_max_seconds, 45 * 60)`, in milliseconds
PeriodLengthObserved(period_max_seconds) == period_max_seconds
\* a floor of the whole 90 minutes of a match instead of the 45 of a period
PeriodLengthOfMatch(period_max_seconds) ==
    IF period_max_seconds > 2 * MinPeriodSeconds * 1000
    THEN period_max_seconds ELSE 2 * MinPeriodSeconds * 1000
PeriodLength(period_max_seconds) ==
    IF period_max_seconds > MinPeriodSeconds * 1000
    THEN period_max_seconds ELSE MinPeriodSeconds * 1000

\* `df["_seconds"] >= cutoff`
AtOrAfterStrict(seconds, cutoff) == seconds > cutoff
AtOrAfter(seconds, cutoff) == seconds >= cutoff

\* filter_last_n_minutes(df, n_minutes, period); period is None or Some(p).
\* The helper column _seconds stays on the tables returned early.
filter_last_n_minutes(t, n_minutes, period) ==
    IF ~HasCol(t, "period") \/ ~HasCol(t, "timestamp") THEN t
    ELSE LET d == [t EXCEPT !.cols = @ \cup {"_seconds"}]
             seconds == [i \in DOMAIN d.rows |-> timestamp_to_seconds(d.rows[i].timestamp)]
             periods == { d.rows[i].period[1] :
                            i \in { j \in DOMAIN d.rows : notna(d.rows[j].period) } }
         IN IF periods = {} THEN d
            ELSE LET use_period == UsePeriod(period, periods)
                     period_events == Filter(d, PeriodIs(d, use_period))
                 IN IF Empty(period_events) THEN period_events
                    ELSE LET inPeriod == { i \in DOMAIN d.rows :
                                             d.rows[i].period = Some(use_period) }
                             period_max_seconds == MaxOf({ seconds[i] : i \in inPeriod })
                             cutoff == PeriodLength(period_max_seconds) - n_minutes * 1000
                             out == Filter(d, [i \in DOMAIN d.rows |->
                                                 /\ d.rows[i].period = Some(use_period)
                                                 /\ AtOrAfter(seconds[i], cutoff)])
                         IN [out EXCEPT !.cols = @ \ {"_seconds"}]

\* The table the caller holds after `df = df.copy()` followed by
\* `df[col] = ...`: the name df is rebound to a new object, so the column is
\* written to the copy and the caller's table is as before.
AssignColumnToArgument(t, col) == [t EXCEPT !.cols = @ \cup {col}]
AssignColumnToCopy(t, col) == t

\* the caller's table after filter_last_n_minutes(df, ..) or
\* filter_first_n_minutes(df, ..): both write the helper column _seconds
caller_table_after_filter_minutes(t) ==
    IF ~HasCol(t, "period") \/ ~HasCol(t, "timestamp") THEN t
    ELSE AssignColumnToCopy(t, "_seconds")

\* the events strictly before n minutes
filter_first_n_minutes_before(t, n_minutes, period) ==
    IF ~HasCol(t, "period") \/ ~HasCol(t, "timestamp") THEN t
    ELSE LET use_period == IF notna(period) THEN period[1] ELSE 1
         IN Filter(t, [i \in DOMAIN t.rows |->
                         /\ t.rows[i].period = Some(use_period)
                         /\ timestamp_to_seconds(t.rows[i].timestamp) < n_minutes * 1000])

\* filter_first_n_minutes(df, n_minutes, period)
filter_first_n_minutes(t, n_minutes, period) ==
    IF ~HasCol(t, "period") \/ ~HasCol(t, "timestamp") THEN t
    ELSE LET use_period == IF notna(period) THEN period[1] ELSE 1
             cutoff == n_minutes * 1000
             out == Filter(t, [i \in DOMAIN t.rows |->
                                 /\ t.rows[i].period = Some(use_period)
                                 /\ timestamp_to_seconds(t.rows[i].timestamp) <= cutoff])
         IN out

----------------------------------------------------------------------------
(* features/metrics.py *)

IsPass(t) == [i \in DOMAIN t.rows |-> t.rows[i].type_name = Some("Pass")]
IsShot(t) == [i \in DOMAIN t.rows |-> t.rows[i].type_name = Some("Shot")]

MetricGuard(t) ==
    Empty(t) \/ ~HasCol(t, "team_id") \/ ~HasCol(t, "type_name")

\* `total = counts.sum()` of possession_share_from_passes
PassTotalWithNullTeams(t, counts) == Len(t.rows)
PassTotal(t, counts) == SumValues(counts)

\* possession_share_from_passes: str(team id) -> share, the share kept as the
\* exact ratio <<count, total>>
possession_share_from_passes(t) ==
    IF MetricGuard(t) THEN EmptyDict
    ELSE LET passes == Filter(t, IsPass(t))
         IN IF Empty(passes) THEN EmptyDict
            ELSE LET counts == value_counts(passes)
                     total == PassTotal(passes, counts)
                 IN IF total = 0 THEN EmptyDict
                    ELSE [ key \in { StrOfColumnTid(passes, tid) : tid \in DOMAIN counts } |->
                             LET tid == CHOOSE id \in DOMAIN counts :
                                            StrOfColumnTid(passes, id) = key
                             IN <<counts[tid], total>> ]

pass_counts_by_team(t) ==
    IF MetricGuard(t) THEN EmptyDict
    ELSE value_counts(Filter(t, IsPass(t)))

IsSuccessfulPass(t) ==
    [i \in DOMAIN t.rows |->
        isna(t.rows[i].pass_outcome) \/ t.rows[i].pass_outcome = Some("Complete")]

successful_pass_counts_by_team(t) ==
    IF MetricGuard(t) THEN EmptyDict
    ELSE LET passes == Filter(t, IsPass(t))
         IN IF Empty(passes) THEN EmptyDict
            ELSE IF HasCol(passes, "pass_outcome")
                 THEN value_counts(Filter(passes, IsSuccessfulPass(passes)))
                 ELSE value_counts(passes)

shot_counts_by_team(t) ==
    IF MetricGuard(t) THEN EmptyDict
    ELSE value_counts(Filter(t, IsShot(t)))

\* shots a keeper saved, goals left out
IsSaved(t) == [i \in DOMAIN t.rows |-> t.rows[i].shot_outcome = Some("Saved")]

IsOnTarget(t) ==
    [i \in DOMAIN t.rows |-> t.rows[i].shot_outcome \in {Some("Saved"), Some("Goal")}]

shots_on_target_by_team(t) ==
    IF MetricGuard(t) THEN EmptyDict
    ELSE LET shots == Filter(t, IsShot(t))
         IN IF Empty(shots) THEN EmptyDict
            ELSE IF ~HasCol(shots, "shot_outcome") THEN shot_counts_by_team(t)
            ELSE value_counts(Filter(shots, IsOnTarget(shots)))

IsGoalOrSaved(t) ==
    [i \in DOMAIN t.rows |-> t.rows[i].shot_outcome \in {Some("Saved"), Some("Goal")}]
IsGoal(t) == [i \in DOMAIN t.rows |-> t.rows[i].shot_outcome = Some("Goal")]

\* goals counted from the outcomes alone, without the default of 0
goals_by_team_no_default(t) ==
    IF MetricGuard(t) THEN EmptyDict
    ELSE LET shots == Filter(t, IsShot(t))
         IN value_counts(Filter(shots, IsGoal(shots)))

\* (without a shot_outcome column the dict also gets a NaN key when a shot has
\* no team; no lookup by a team id can hit it, so it is not represented)
goals_by_team(t) ==
    IF MetricGuard(t) THEN EmptyDict
    ELSE LET shots == Filter(t, IsShot(t))
         IN IF Empty(shots) \/ ~HasCol(shots, "shot_outcome")
            THEN [ tid \in DOMAIN value_counts(shots) |-> 0 ]
            ELSE value_counts(Filter(shots, IsGoal(shots)))

\* average_position_by_team reads df["x"] and df["y"] without a column check
average_position_raises_unguarded(t) == ~(HasCol(t, "x") /\ HasCol(t, "y"))
average_position_raises(t) ==
    /\ ~(Empty(t) \/ ~HasCol(t, "team_id"))
    /\ ~(HasCol(t, "x") /\ HasCol(t, "y"))

HasXY(t) == [i \in DOMAIN t.rows |-> notna(t.rows[i].x) /\ notna(t.rows[i].y)]

\* team id -> [avg_x, avg_y], each mean kept exact as <<sum, count>>
average_position_by_team(t) ==
    IF Empty(t) \/ ~HasCol(t, "team_id") THEN EmptyDict
    ELSE LET valid == Filter(t, HasXY(t))
         IN IF Empty(valid) THEN EmptyDict
            ELSE [ tid \in DOMAIN value_counts(valid) |->
                     LET ev == Filter(valid, [i \in DOMAIN valid.rows |->
                                                valid.rows[i].team_id = Some(tid)]).rows
                     IN [ avg_x |-> <<SumSeq([i \in DOMAIN ev |-> ev[i].x[1]]), Len(ev)>>,
                          avg_y |-> <<SumSeq([i \in DOMAIN ev |-> ev[i].y[1]]), Len(ev)>> ] ]

FinalThirdX == 80

InFinalThird(t) ==
    [i \in DOMAIN t.rows |-> notna(t.rows[i].x) /\ t.rows[i].x[1] >= FinalThirdX * 100]

final_third_entries_by_team(t) ==
    IF Empty(t) \/ ~HasCol(t, "team_id") \/ ~HasCol(t, "x") THEN EmptyDict
    ELSE value_counts(Filter(t, InFinalThird(t)))

----------------------------------------------------------------------------
(* features/spatial.py *)

AttackingHalfX == 60
FinalThirdMinX == 80
LeftFlankMaxY == 2667       \* 26.67, in hundredths
CenterMaxY == 5333          \* 53.33, in hundredths
PitchWidth == 80

AttackingTypes == {Some("Pass"), Some("Carry"), Some("Dribble"), Some("Shot")}

TeamIs(t, team_id) == [i \in DOMAIN t.rows |-> t.rows[i].team_id = Some(team_id)]

\* attacking actions with location data
IsLocatedAttack(t) ==
    [i \in DOMAIN t.rows |->
        /\ t.rows[i].type_name \in AttackingTypes
        /\ notna(t.rows[i].x)
        /\ notna(t.rows[i].y)]

\* the masks below are taken on tables whose x and y cells are all non-null
InAttackingHalf(t) == [i \in DOMAIN t.rows |-> t.rows[i].x[1] > AttackingHalfX * 100]

IsLeftFlank(t) == [i \in DOMAIN t.rows |-> t.rows[i].y[1] < LeftFlankMaxY]

IsCenterExclusive(t) ==
    [i \in DOMAIN t.rows |-> t.rows[i].y[1] > LeftFlankMaxY /\ t.rows[i].y[1] < CenterMaxY]
IsCenter(t) ==
    [i \in DOMAIN t.rows |-> t.rows[i].y[1] >= LeftFlankMaxY /\ t.rows[i].y[1] <= CenterMaxY]

IsRightFlank(t) == [i \in DOMAIN t.rows |-> t.rows[i].y[1] > CenterMaxY]

InSpatialFinalThird(t) == [i \in DOMAIN t.rows |-> t.rows[i].x[1] > FinalThirdMinX * 100]

\* the function indexes team_id, type_name, x and y without a column check
attack_distribution_raises(t) ==
    ~({"team_id", "type_name", "x", "y"} \subseteq t.cols)

NoAttacks ==
    [ raised |-> FALSE,
      left_flank_attacks_pct |-> None, center_attacks_pct |-> None,
      right_flank_attacks_pct |-> None, attacking_half_actions |-> 0,
      final_third_dominance |-> None ]

\* attack_distribution_by_zone; a share is None or Some(<<count, total>>)
attack_distribution_by_zone(events_df, team_id) ==
    IF attack_distribution_raises(events_df) THEN [NoAttacks EXCEPT !.raised = TRUE]
    ELSE
    LET team_events == Filter(events_df, TeamIs(events_df, team_id))
        attacking_events == Filter(team_events, IsLocatedAttack(team_events))
    IN IF Len(attacking_events.rows) = 0 THEN NoAttacks
       ELSE
       LET attacking_half == Filter(attacking_events, InAttackingHalf(attacking_events))
           attacking_half_count == Len(attacking_half.rows)
       IN IF attacking_half_count = 0 THEN NoAttacks
          ELSE
          LET left_flank == Len(Filter(attacking_half, IsLeftFlank(attacking_half)).rows)
              center == Len(Filter(attacking_half, IsCenter(attacking_half)).rows)
              right_flank == Len(Filter(attacking_half, IsRightFlank(attacking_half)).rows)
              total == left_flank + center + right_flank
              final_third == Filter(attacking_half, InSpatialFinalThird(attacking_half))
              ys == { final_third.rows[i].y[1] : i \in DOMAIN final_third.rows }
              y_spread == MaxOf(ys) - MinOf(ys)
          IN [ raised |-> FALSE,
               left_flank_attacks_pct |-> IF total > 0 THEN Some(<<left_flank, total>>) ELSE None,
               center_attacks_pct |-> IF total > 0 THEN Some(<<center, total>>) ELSE None,
               right_flank_attacks_pct |-> IF total > 0 THEN Some(<<right_flank, total>>) ELSE None,
               attacking_half_actions |-> attacking_half_count,
               final_third_dominance |->
                   IF Len(final_third.rows) > 0
                   THEN Some(IF y_spread > PitchWidth * 100 THEN <<1, 1>>
                             ELSE <<y_spread, PitchWidth * 100>>)
                   ELSE None ]

\* passes with start location and end x
IsLocatedPassOf(t, team_id) ==
    [i \in DOMAIN t.rows |->
        /\ t.rows[i].team_id = Some(team_id)
        /\ t.rows[i].type_name = Some("Pass")
        /\ notna(t.rows[i].x)
        /\ notna(t.rows[i].y)
        /\ notna(t.rows[i].end_x)]

\* `team_passes["end_x"] < team_passes["x"]`
IsBackward(t) == [i \in DOMAIN t.rows |-> t.rows[i].end_x[1] < t.rows[i].x[1]]

\* Series.std() squared: the sample variance (ddof = 1) of a sequence of
\* integers as the exact ratio; NaN (None) for a single value
SampleVariance(s) ==
    LET n == Len(s)
        sum == SumSeq(s)
        squares == SumSeq([i \in DOMAIN s |-> s[i] * s[i]])
    IN IF n < 2 THEN None ELSE Some(<<n * squares - sum * sum, n * (n - 1)>>)

\* `back_passes_pct = backward / len(team_passes)`
BackPassesPercent(backward, n) == <<backward * 100, n>>
BackPassesPct(backward, n) == <<backward, n>>

\* the function indexes team_id, type_name, x, y and end_x without a column check
passing_concentration_raises(t) ==
    ~({"team_id", "type_name", "x", "y", "end_x"} \subseteq t.cols)

NoPasses ==
    [ raised |-> FALSE, pass_width_spread |-> None, pass_depth_spread |-> None,
      back_passes_pct |-> None ]

\* passing_concentration; the spreads are held squared (variances)
passing_concentration(events_df, team_id) ==
    IF passing_concentration_raises(events_df) THEN [NoPasses EXCEPT !.raised = TRUE]
    ELSE
    LET team_passes == Filter(events_df, IsLocatedPassOf(events_df, team_id))
        n == Len(team_passes.rows)
    IN IF n = 0 THEN NoPasses
       ELSE
       LET backward == Len(Filter(team_passes, IsBackward(team_passes)).rows)
       IN [ raised |-> FALSE,
            pass_width_spread |->
                SampleVariance([i \in DOMAIN team_passes.rows |-> team_passes.rows[i].y[1]]),
            pass_depth_spread |->
                SampleVariance([i \in DOMAIN team_passes.rows |-> team_passes.rows[i].x[1]]),
            back_passes_pct |-> Some(BackPassesPct(backward, n)) ]

DefensiveTypes ==
    {Some("Pressure"), Some("Tackle"), Some("Interception"), Some("Block"),
     Some("Clearance"), Some("Duel")}

LossTypes == {Some("Dispossessed"), Some("Miscontrol")}

\* defensive actions with an x
IsLocatedDefensive(t) ==
    [i \in DOMAIN t.rows |->
        t.rows[i].type_name \in DefensiveTypes /\ notna(t.rows[i].x)]

\* the losses mask: a loss type, or a pass with any recorded outcome when the
\* table has the pass_outcome column, with an x
IsPossessionLoss(t) ==
    [i \in DOMAIN t.rows |->
        IF HasCol(t, "pass_outcome")
        THEN /\ \/ t.rows[i].type_name \in LossTypes
                \/ (t.rows[i].type_name = Some("Pass") /\ notna(t.rows[i].pass_outcome))
             /\ notna(t.rows[i].x)
        ELSE t.rows[i].type_name \in LossTypes /\ notna(t.rows[i].x)]

\* the masks below are taken on tables whose x cells are all non-null
InHighPress(t) == [i \in DOMAIN t.rows |-> t.rows[i].x[1] > 60 * 100]
InLowBlock(t) == [i \in DOMAIN t.rows |-> t.rows[i].x[1] < 40 * 100]
InAttackingThird(t) == [i \in DOMAIN t.rows |-> t.rows[i].x[1] > 80 * 100]

\* defensive_zone_activity
defensive_zone_activity(events_df, team_id) ==
    LET team_events == Filter(events_df, TeamIs(events_df, team_id))
        defensive_events == Filter(team_events, IsLocatedDefensive(team_events))
        losses == Filter(team_events, IsPossessionLoss(team_events))
    IN [ high_press_actions |-> Len(Filter(defensive_events, InHighPress(defensive_events)).rows),
         low_block_actions |-> Len(Filter(defensive_events, InLowBlock(defensive_events)).rows),
         possession_losses_attacking_third |->
             Len(Filter(losses, InAttackingThird(losses)).rows) ]

----------------------------------------------------------------------------
(* features/aggregator.py *)

\* df.drop_duplicates("team_id"): the first row of every distinct team_id
\* value (NaN counts as one value), in table order
drop_duplicates_team_id(t) ==
    LET first == { i \in DOMAIN t.rows :
                     \A j \in 1..(i - 1) : t.rows[j].team_id # t.rows[i].team_id }
        Keep(i) == i \in first
        idx == SelectSeq([i \in DOMAIN t.rows |-> i], Keep)
    IN [i \in DOMAIN idx |-> t.rows[idx[i]]]

\* _team_id_to_name_map: int(team id) -> name
team_id_to_name_map(t) ==
    IF Empty(t) \/ ~HasCol(t, "team_id") THEN EmptyDict
    ELSE LET firsts == drop_duplicates_team_id(t)
             known == { i \in DOMAIN firsts : notna(firsts[i].team_id) }
         IN [ tid \in { firsts[i].team_id[1] : i \in known } |->
                LET row == firsts[CHOOSE i \in known : firsts[i].team_id = Some(tid)]
                IN IF HasCol(t, "team_name") /\ notna(row.team_name)
                   THEN row.team_name[1]
                   ELSE "Team_" \o StrOfColumnTid(t, tid) ]

\* the keys from the largest to the smallest
SortedDescending(S) ==
    [ i \in 1..Cardinality(S) |->
        CHOOSE e \in S : Cardinality({ o \in S : o >= e }) = i ]

\* sorted(keys): the ascending sequence of a finite set of integers
RECURSIVE Sorted(_)
Sorted(S) ==
    IF S = {} THEN <<>>
    ELSE LET m == CHOOSE e \in S : \A o \in S : e <= o
         IN <<m>> \o Sorted(S \ {m})

\* `pct = possession.get(str(tid), 0.0)` of compute_match_metrics
PossessionKey(t, tid) == ToString(tid)

\* `pass_pct = (passes_ok / passes * 100) if passes else None`, after round(.., 2)
PassPctAlways(passes_ok, passes) ==
    Some(RoundHalfEven(passes_ok * 100 * 100, IF passes = 0 THEN 1 ELSE passes))
PassPct(passes_ok, passes) ==
    IF passes # 0 THEN Some(RoundHalfEven(passes_ok * 100 * 100, passes)) ELSE None

\* one element of `teams`
TeamRecord(t, tid) ==
    LET possession == possession_share_from_passes(t)
        pct == Get(possession, PossessionKey(t, tid), <<0, 1>>)
        passes == Get(pass_counts_by_team(t), tid, 0)
        passes_ok == Get(successful_pass_counts_by_team(t), tid, 0)
        pos == Get(average_position_by_team(t), tid,
                   [avg_x |-> <<0, 1>>, avg_y |-> <<0, 1>>])
    IN [ team_id |-> tid,
         team_name |-> team_id_to_name_map(t)[tid],
         possession_share |-> RoundHalfEven(pct[1] * 10000, pct[2]),
         passes |-> passes,
         passes_successful |-> passes_ok,
         pass_completion_pct |-> PassPct(passes_ok, passes),
         shots |-> Get(shot_counts_by_team(t), tid, 0),
         shots_on_target |-> Get(shots_on_target_by_team(t), tid, 0),
         goals |-> Get(goals_by_team(t), tid, 0),
         avg_x |-> RoundHalfEven(pos.avg_x[1], pos.avg_x[2]),
         avg_y |-> RoundHalfEven(pos.avg_y[1], pos.avg_y[2]),
         final_third_entries |-> Get(final_third_entries_by_team(t), tid, 0) ]

\* `total_passes = sum(pass_counts.values())`, `total_shots = sum(shot_counts.values())`
Totals(t) ==
    [ total_passes |-> SumValues(pass_counts_by_team(t)),
      total_shots |-> SumValues(shot_counts_by_team(t)) ]

\* compute_match_metrics: the Segment Result, or the KeyError that
\* average_position_by_team lets escape (raised = TRUE, nothing returned)
compute_match_metrics(t, segment_label) ==
    IF average_position_raises(t)
    THEN [ raised |-> TRUE, segment |-> segment_label, teams |-> <<>>,
           totals |-> [total_passes |-> 0, total_shots |-> 0] ]
    ELSE LET team_ids == Sorted(DOMAIN team_id_to_name_map(t))
         IN [ raised |-> FALSE,
              segment |-> segment_label,
              teams |-> [ i \in DOMAIN team_ids |-> TeamRecord(t, team_ids[i]) ],
              totals |-> Totals(t) ]

\* int(last_n) of a number of minutes held as 60 * n: truncation toward zero
IntOfMinutes(n) == IF n >= 0 THEN n \div 60 ELSE -((-n) \div 60)

\* `if period`: None and 0 are false
Truthy(cell) == notna(cell) /\ cell[1] # 0

\* the table a requested segment is computed on (get_match_metrics_multi_segment,
\* the body of `for seg in segments`)
segment_window(df_full, seg) ==
    LET byPeriod == IF notna(seg.period) THEN filter_by_period(df_full, seg.period[1])
                    ELSE df_full
    IN IF notna(seg.last_n_minutes)
       THEN filter_last_n_minutes(byPeriod, seg.last_n_minutes[1], seg.period)
       ELSE byPeriod

\* the label of a requested segment
segment_label(seg) ==
    IF notna(seg.last_n_minutes)
    THEN "last_" \o ToString(IntOfMinutes(seg.last_n_minutes[1])) \o "_min"
         \o (IF Truthy(seg.period) THEN "_p" \o ToString(seg.period[1]) ELSE "")
    ELSE IF notna(seg.period) THEN "period_" \o ToString(seg.period[1])
    ELSE "full_match"

\* the segment label of get_match_metrics
single_segment_label(period, last_n_minutes) ==
    LET by_period == IF notna(period) THEN "period_" \o ToString(period[1])
                     ELSE "full_match"
    IN IF notna(last_n_minutes)
       THEN LET last == "last_" \o ToString(IntOfMinutes(last_n_minutes[1])) \o "_min"
            IN IF notna(period) THEN "period_" \o ToString(period[1]) \o "_" \o last
               ELSE last
       ELSE by_period

\* get_match_metrics on the loaded table: period filter, last-minutes filter,
\* then compute_match_metrics under the label
get_match_metrics(df_loaded, period, last_n_minutes) ==
    LET byPeriod == IF notna(period) THEN filter_by_period(df_loaded, period[1])
                    ELSE df_loaded
        window == IF notna(last_n_minutes)
                  THEN filter_last_n_minutes(byPeriod, last_n_minutes[1], period)
                  ELSE byPeriod
    IN compute_match_metrics(window, single_segment_label(period, last_n_minutes))

\* the new segment put in front of the list
InsertSegmentFirst(result_segments, segment) == <<segment>> \o result_segments

\* result_segments.append(..)
AppendUnlessPresent(result_segments, segment) ==
    IF \E i \in DOMAIN result_segments : result_segments[i] = segment
    THEN result_segments ELSE Append(result_segments, segment)
AppendSegment(result_segments, segment) == Append(result_segments, segment)

----------------------------------------------------------------------------
(* Event tables the calls are given *)

Row(team, name, type, pout, sout, period, ts, x, y, end_x) ==
    [ team_id |-> team, team_name |-> name, type_name |-> type,
      pass_outcome |-> pout, shot_outcome |-> sout, period |-> period,
      timestamp |-> ts, x |-> x, y |-> y, end_x |-> end_x ]

\* a well-formed timestamp HH:MM:SS.fff; frac is the digit string after the dot
Ts(h, m, s, frac) == Some([wf |-> TRUE, h |-> h, m |-> m, s |-> s, frac |-> frac])

\* a timestamp cell whose text the pattern does not match
BadTs == Some([wf |-> FALSE, h |-> 0, m |-> 0, s |-> 0, frac |-> <<>>])

NameOf(team) ==
    IF team = Some(1) THEN Some("Team A")
    ELSE IF team = Some(2) THEN Some("Team B") ELSE None

PassRow(team, pout) ==
    Row(team, NameOf(team), Some("Pass"), pout, None, Some(1), Ts(0, 10, 0, <<0, 0, 0>>),
        Some(6000), Some(4000), Some(7000))

ShotRow(team, sout) ==
    Row(team, NameOf(team), Some("Shot"), None, sout, Some(1), Ts(0, 20, 0, <<0, 0, 0>>),
        Some(10000), Some(5000), None)

\* rows of the aggregation scenarios: passes and shots of two teams, and events
\* of no team
AggRows ==
    { PassRow(team, None) : team \in {None, Some(1), Some(2)} }
    \cup { PassRow(team, Some("Incomplete")) : team \in {Some(1), Some(2)} }
    \cup { ShotRow(team, Some("Goal")) : team \in {Some(1), Some(2)} }
    \cup { ShotRow(Some(1), Some("Saved")), ShotRow(Some(2), None), ShotRow(None, None) }

SeqsUpTo(S, n) == UNION { [1..k -> S] : k \in 0..n }

\* the dtypes a team_id column with these cells can have
TidDtypes(rows) ==
    IF \E i \in DOMAIN rows : isna(rows[i].team_id)
    THEN {"float64"} ELSE {"int64", "float64"}

\* the columns that may be missing from a table with these rows: those without
\* a value in any row
Droppable(rows) ==
    { c \in AllCols : \A i \in DOMAIN rows : isna(rows[i][c]) }

\* the tables of at most n rows drawn from rowSet, with all the columns or
\* without some of the `optional` ones
Tables(rowSet, n, optional) ==
    { t \in [ rows : SeqsUpTo(rowSet, n),
              cols : { AllCols \ drop : drop \in SUBSET optional },
              team_id_dtype : {"int64", "float64"} ] :
        /\ t.team_id_dtype \in TidDtypes(t.rows)
        /\ (AllCols \ t.cols) \subseteq Droppable(t.rows) }

NoArgs == [label |-> "full_match"]

----------------------------------------------------------------------------
(* Aggregation scenario: one metric call on a table *)

InitAgg ==
    /\ df \in Tables(AggRows, MaxRows, {"pass_outcome", "shot_outcome"})
    /\ pc = "start"
    /\ args = NoArgs
    /\ win = None
    /\ ret = None
    /\ ret2 = None
    /\ client = None

CallPossessionShare ==
    /\ pc = "start"
    /\ ret' = possession_share_from_passes(df)
    /\ pc' = "possession_share_from_passes"
    /\ UNCHANGED <<client, df, args, win, ret2>>

CallComputeMatchMetrics ==
    /\ pc = "start"
    /\ \E label \in {"full_match", "test"} :
          /\ args' = [label |-> label]
          /\ ret' = compute_match_metrics(df, label)
    /\ pc' = "compute_match_metrics"
    /\ UNCHANGED <<client, df, win, ret2>>

NextAgg == CallPossessionShare \/ CallComputeMatchMetrics

SpecAgg == InitAgg /\ [][NextAgg]_vars

----------------------------------------------------------------------------
(* Properties of the aggregation scenario *)

RatAdd(a, b) == <<a[1] * b[2] + b[1] * a[2], a[2] * b[2]>>

RECURSIVE RatSum(_, _)
RatSum(d, S) ==
    IF S = {} THEN <<0, 1>>
    ELSE LET k == CHOOSE e \in S : TRUE IN RatAdd(d[k], RatSum(d, S \ {k}))

\* the shares of a dict add up to exactly 1
SumsToOne(d) == LET s == RatSum(d, DOMAIN d) IN s[1] = s[2]

HasPass(t) == \E i \in DOMAIN t.rows : t.rows[i].type_name = Some("Pass")
HasTeamPass(t) ==
    \E i \in DOMAIN t.rows : t.rows[i].type_name = Some("Pass") /\ notna(t.rows[i].team_id)

PossessionReturned == pc = "possession_share_from_passes"
MetricsReturned == pc = "compute_match_metrics" /\ ~ret.raised

\* C2 as stated: the shares returned by possession_share_from_passes sum to 1
\* whenever the table has a Pass event, and the result is empty only when the
\* table has no Pass event.
C2_SharesSumToOneIfAnyPass ==
    PossessionReturned =>
        /\ (HasPass(df) => SumsToOne(ret))
        /\ (DOMAIN ret = {} => ~HasPass(df))

\* C2 amended: the shares returned by possession_share_from_passes sum to
\* exactly 1 whenever the table has a Pass event that carries a team id, and the
\* result is empty exactly when the table has no such Pass event.
C2_SharesSumToOneIfAnyTeamPass ==
    PossessionReturned =>
        /\ (HasTeamPass(df) => SumsToOne(ret))
        /\ (DOMAIN ret = {} <=> ~HasTeamPass(df))

\* two teams share the passes of a table that also holds a pass of no team
C2_Witness ==
    /\ PossessionReturned
    /\ Cardinality(DOMAIN ret) = 2
    /\ \E i \in DOMAIN df.rows : df.rows[i].type_name = Some("Pass") /\ isna(df.rows[i].team_id)

\* C3: in every Segment Result, every team's possession_share is its passes
\* divided by totals.total_passes, rounded to 4 decimals, whenever
\* total_passes > 0, for integer and float team_id columns alike; a team with
\* passes never gets possession_share 0.
C3_PossessionShareIsPassesOverTotal ==
    MetricsReturned =>
        \A i \in DOMAIN ret.teams :
            LET rec == ret.teams[i] IN
            ret.totals.total_passes > 0 =>
                /\ rec.possession_share =
                       RoundHalfEven(rec.passes * 10000, ret.totals.total_passes)
                /\ (rec.passes > 0 => rec.possession_share > 0)

\* C4: compute_match_metrics reports for each team its number of Pass events,
\* of Shot events and of Shot events whose outcome is exactly Goal, and the
\* totals are the sums of the listed teams' passes and shots.
C4_CountsAndTotals ==
    MetricsReturned =>
        /\ \A i \in DOMAIN ret.teams :
              LET rec == ret.teams[i]
                  OfTeam(type) ==
                      { j \in DOMAIN df.rows : /\ df.rows[j].team_id = Some(rec.team_id)
                                               /\ df.rows[j].type_name = Some(type) }
              IN /\ rec.passes = Cardinality(OfTeam("Pass"))
                 /\ rec.shots = Cardinality(OfTeam("Shot"))
                 /\ rec.goals = Cardinality({ j \in OfTeam("Shot") :
                                                df.rows[j].shot_outcome = Some("Goal") })
        /\ ret.totals.total_passes =
              SumSeq([i \in DOMAIN ret.teams |-> ret.teams[i].passes])
        /\ ret.totals.total_shots =
              SumSeq([i \in DOMAIN ret.teams |-> ret.teams[i].shots])

\* two teams are listed, one with a goal and a saved shot, and the table also
\* holds an event of no team
C4_Witness ==
    /\ MetricsReturned
    /\ Len(ret.teams) = 2
    /\ \E i \in DOMAIN ret.teams : ret.teams[i].goals = 1 /\ ret.teams[i].shots = 2
    /\ ret.totals.total_shots = 2

\* C5: for every team of a Segment Result, pass_completion_pct is null if and
\* only if passes = 0, and otherwise is passes_successful / passes * 100 rounded
\* to 2 decimals.
C5_PassCompletionNullIffNoPasses ==
    MetricsReturned =>
        \A i \in DOMAIN ret.teams :
            LET rec == ret.teams[i] IN
            /\ isna(rec.pass_completion_pct) <=> rec.passes = 0
            /\ rec.passes > 0 =>
                  rec.pass_completion_pct =
                      Some(RoundHalfEven(rec.passes_successful * 10000, rec.passes))

\* one listed team has no pass, the other completed one pass of two
C5_Witness ==
    /\ MetricsReturned
    /\ \E i, j \in DOMAIN ret.teams :
          /\ ret.teams[i].passes = 0
          /\ isna(ret.teams[i].pass_completion_pct)
          /\ ret.teams[j].passes = 2
          /\ ret.teams[j].pass_completion_pct = Some(5000)

----------------------------------------------------------------------------
(* Window scenario: a window filter on a table, filter_by_period once more *)

WinRow(period, ts) ==
    Row(Some(1), Some("Team A"), Some("Pass"), None, None, period, ts,
        Some(6000), Some(4000), Some(7000))

\* events of two periods around the 35:00 cutoff, one with an unreadable
\* timestamp, one without a timestamp, one of no period
WinRows ==
    { WinRow(Some(2), ts) : ts \in { BadTs, Ts(0, 34, 59, <<9>>), Ts(0, 35, 0, <<0, 0, 0>>),
                                     Ts(0, 40, 0, <<>>), Ts(0, 50, 0, <<0, 0, 0>>) } }
    \cup { WinRow(Some(1), ts) : ts \in { Ts(0, 35, 0, <<0, 0, 0>>), Ts(0, 50, 0, <<0, 0, 0>>) } }
    \cup { WinRow(None, Ts(0, 40, 0, <<>>)), WinRow(Some(2), None) }

\* a number of minutes, held as 60 * n: 0, 10 and 50 minutes
WinMinutes == {0, 600, 3000}

WinPeriods == {1, 2, 3}

InitWin ==
    /\ df \in { t \in Tables(WinRows, MaxRows, {"period"}) : t.team_id_dtype = "int64" }
    /\ pc = "start"
    /\ args = NoArgs
    /\ win = None
    /\ ret = None
    /\ ret2 = None
    /\ client = None

CallFilterByPeriod ==
    /\ pc = "start"
    /\ \E p \in WinPeriods :
          /\ args' = [period |-> p]
          /\ win' = filter_by_period(df, p)
    /\ pc' = "filter_by_period"
    /\ UNCHANGED <<client, df, ret, ret2>>

\* the table returned is filtered by the same period once more
CallFilterByPeriodAgain ==
    /\ pc = "filter_by_period"
    /\ ret2' = filter_by_period(win, args.period)
    /\ pc' = "filter_by_period_again"
    /\ UNCHANGED <<client, df, args, win, ret>>

CallFilterLastNMinutes ==
    /\ pc = "start"
    /\ \E n \in WinMinutes, period \in {None} \cup { Some(p) : p \in WinPeriods } :
          /\ args' = [n_minutes |-> n, period |-> period]
          /\ win' = filter_last_n_minutes(df, n, period)
    /\ df' = caller_table_after_filter_minutes(df)
    /\ pc' = "filter_last_n_minutes"
    /\ UNCHANGED <<client, ret, ret2>>

CallFilterFirstNMinutes ==
    /\ pc = "start"
    /\ \E n \in WinMinutes, period \in {None} \cup { Some(p) : p \in WinPeriods } :
          /\ args' = [n_minutes |-> n, period |-> period]
          /\ win' = filter_first_n_minutes(df, n, period)
    /\ df' = caller_table_after_filter_minutes(df)
    /\ pc' = "filter_first_n_minutes"
    /\ UNCHANGED <<client, ret, ret2>>

NextWin == CallFilterByPeriod \/ CallFilterByPeriodAgain \/ CallFilterLastNMinutes

SpecWin == InitWin /\ [][NextWin]_vars

----------------------------------------------------------------------------
(* Properties of the window scenario *)

LastNReturned == pc = "filter_last_n_minutes"

PeriodsPresent(t) ==
    { t.rows[i].period[1] : i \in { j \in DOMAIN t.rows : notna(t.rows[j].period) } }

\* the reference period of the call: the period given, else the last one present
ReferencePeriod ==
    IF notna(args.period) THEN args.period[1] ELSE MaxOf(PeriodsPresent(df))

ElapsedMs(r) == timestamp_to_seconds(r.timestamp)

\* the rows the claim says are kept: those of the reference period at or after
\* max(latest elapsed time of the period, 45:00) - n minutes
RowsOfLastN ==
    LET inRef == { i \in DOMAIN df.rows : df.rows[i].period = Some(ReferencePeriod) }
        latest == MaxOf({ ElapsedMs(df.rows[i]) : i \in inRef })
        length == IF latest > 2700 * 1000 THEN latest ELSE 2700 * 1000
        cutoff == length - args.n_minutes * 1000
        Kept(i) == i \in inRef /\ ElapsedMs(df.rows[i]) >= cutoff
        idx == SelectSeq([i \in DOMAIN df.rows |-> i], Kept)
    IN IF inRef = {} THEN <<>> ELSE [k \in DOMAIN idx |-> df.rows[idx[k]]]

\* the scenario of the claim: last 10 minutes of a period whose latest event is
\* at 40:00 keep the event at 35:00 and drop the one before it
LastTenOfFortyMinutePeriod ==
    LET inRef == { i \in DOMAIN df.rows : df.rows[i].period = Some(ReferencePeriod) }
    IN (/\ args.n_minutes = 600
        /\ inRef # {}
        /\ MaxOf({ ElapsedMs(df.rows[i]) : i \in inRef }) = 40 * 60 * 1000)
       => \A i \in inRef :
            /\ df.rows[i].timestamp = Ts(0, 35, 0, <<0, 0, 0>>)
                  => \E k \in DOMAIN win.rows : win.rows[k] = df.rows[i]
            /\ df.rows[i].timestamp = Ts(0, 34, 59, <<9>>)
                  => \A k \in DOMAIN win.rows : win.rows[k] # df.rows[i]

C8_FilterByPeriodIdempotent ==
    pc = "filter_by_period_again" => ret2 = win

\* the first filter kept some rows and dropped others
C8_Witness ==
    /\ pc = "filter_by_period_again"
    /\ Len(win.rows) > 0
    /\ Len(win.rows) < Len(df.rows)
    /\ ret2.rows = win.rows

----------------------------------------------------------------------------
(* Round-trip scenario: aggregate a table and the same table filtered by period *)

RoundTripRows ==
    { Row(Some(team), NameOf(Some(team)), Some("Pass"), None, None, Some(p),
          Ts(0, 10, 0, <<0, 0, 0>>), Some(6000), Some(4000), Some(7000)) :
        team \in {1, 2}, p \in {1, 2} }
    \cup { Row(Some(team), NameOf(Some(team)), Some("Shot"), None, Some("Goal"), Some(p),
               Ts(0, 20, 0, <<0, 0, 0>>), Some(10000), Some(5000), None) :
             team \in {1, 2}, p \in {1, 2} }

InitRoundTrip ==
    /\ df \in { t \in Tables(RoundTripRows, MaxRows, {}) : t.team_id_dtype = "int64" }
    /\ pc = "start"
    /\ args = NoArgs
    /\ win = None
    /\ ret = None
    /\ ret2 = None
    /\ client = None

CallComputeOnTable ==
    /\ pc = "filter_by_period"
    /\ ret' = compute_match_metrics(df, "full_match")
    /\ pc' = "aggregated_table"
    /\ UNCHANGED <<client, df, args, win, ret2>>

CallComputeOnWindow ==
    /\ pc = "aggregated_table"
    /\ ret2' = compute_match_metrics(win, "full_match")
    /\ pc' = "aggregated_window"
    /\ UNCHANGED <<client, df, args, win, ret>>

NextRoundTrip == CallFilterByPeriod \/ CallComputeOnTable \/ CallComputeOnWindow

SpecRoundTrip == InitRoundTrip /\ [][NextRoundTrip]_vars

\* C9: for a table whose events all have the same period p, compute_match_metrics
\* of filter_by_period(table, p) has the same teams list and the same totals as
\* compute_match_metrics of the table.
C9_AggregationUnchangedByOnlyPeriodFilter ==
    (/\ pc = "aggregated_window"
     /\ \A i \in DOMAIN df.rows : df.rows[i].period = Some(args.period)) =>
        /\ ~ret.raised /\ ~ret2.raised
        /\ ret2.teams = ret.teams
        /\ ret2.totals = ret.totals

\* a table of one period with events of both teams, filtered by that period
C9_Witness ==
    /\ pc = "aggregated_window"
    /\ Len(df.rows) >= 2
    /\ \A i \in DOMAIN df.rows : df.rows[i].period = Some(args.period)
    /\ Len(ret.teams) = 2
    /\ ret.totals.total_passes + ret.totals.total_shots = Len(df.rows)

----------------------------------------------------------------------------
(* Multi-segment scenario: get_match_metrics_multi_segment on a loaded table *)

SegRow(team, period, ts) ==
    Row(Some(team), NameOf(Some(team)), Some("Pass"), None, None, Some(period), ts,
        Some(6000), Some(4000), Some(7000))

SegRows ==
    { SegRow(1, 1, Ts(0, 35, 0, <<0, 0, 0>>)), SegRow(1, 2, Ts(0, 34, 59, <<9>>)),
      SegRow(2, 2, Ts(0, 40, 0, <<>>)), SegRow(2, 1, Ts(0, 50, 0, <<0, 0, 0>>)) }

\* window specifications: dicts with optional 'period' and 'last_n_minutes'
\* (a float: 10 and 10.5 minutes, held as 600 and 630)
SegSpecs ==
    [ period : {None, Some(1), Some(2)}, last_n_minutes : {None, Some(600), Some(630)} ]

InitMulti ==
    /\ df \in { t \in Tables(SegRows, MaxSegRows, {}) : t.team_id_dtype = "int64" }
    /\ pc = "start"
    /\ args = NoArgs
    /\ win = None
    /\ ret = None
    /\ ret2 = None
    /\ client = None

\* the call up to the loop: df_full is loaded (df), the full-match segment
\* is appended; an exception of compute_match_metrics ends the call
CallMultiSegment ==
    /\ pc = "start"
    /\ \E segments \in SeqsUpTo(SegSpecs, MaxSegments) :
          LET full == compute_match_metrics(df, "full_match")
          IN /\ args' = [match_id |-> 1, segments |-> segments, i |-> 1]
             /\ IF full.raised
                THEN pc' = "raised" /\ ret' = None
                ELSE pc' = "for_seg" /\ ret' = AppendSegment(<<>>, full)
    /\ UNCHANGED <<client, df, win, ret2>>

\* one iteration of `for seg in segments`
ForSegment ==
    /\ pc = "for_seg"
    /\ args.i <= Len(args.segments)
    /\ LET seg == args.segments[args.i]
           window == segment_window(df, seg)
           result == compute_match_metrics(window, segment_label(seg))
       IN /\ win' = window
          /\ IF result.raised
             THEN pc' = "raised" /\ ret' = None
             ELSE pc' = "for_seg" /\ ret' = AppendSegment(ret, result)
    /\ args' = [args EXCEPT !.i = @ + 1]
    /\ UNCHANGED <<client, df, ret2>>

\* `return {"match_id": match_id, "segments": result_segments}`
ReturnMultiSegment ==
    /\ pc = "for_seg"
    /\ args.i > Len(args.segments)
    /\ ret' = [match_id |-> args.match_id, segments |-> ret]
    /\ pc' = "multi_segment_returned"
    /\ UNCHANGED <<client, df, args, win, ret2>>

NextMulti == CallMultiSegment \/ ForSegment \/ ReturnMultiSegment

SpecMulti == InitMulti /\ [][NextMulti]_vars

\* the table a window specification selects: the period filter, then the
\* last-minutes filter on its result
WindowOf(seg) ==
    LET a == IF notna(seg.period) THEN filter_by_period(df, seg.period[1]) ELSE df
    IN IF notna(seg.last_n_minutes)
       THEN filter_last_n_minutes(a, seg.last_n_minutes[1], seg.period)
       ELSE a

\* C1: the segments list has 1 + len(specs) elements; the first is the
\* full_match segment of the whole table; element i+1 is the Segment Result of
\* specs[i] (request order, duplicates kept, nothing skipped).
C1_OneSegmentPerSpecInOrder ==
    pc = "multi_segment_returned" =>
        /\ Len(ret.segments) = 1 + Len(args.segments)
        /\ ret.segments[1] = compute_match_metrics(df, "full_match")
        /\ \A i \in DOMAIN args.segments :
              LET expected == compute_match_metrics(WindowOf(args.segments[i]), "")
              IN /\ i + 1 \in DOMAIN ret.segments
                 /\ ret.segments[i + 1].teams = expected.teams
                 /\ ret.segments[i + 1].totals = expected.totals

\* the same window is requested twice and differs from the full match: both
\* results are in the list, after the full-match segment
C1_Witness ==
    /\ pc = "multi_segment_returned"
    /\ Len(args.segments) = 2
    /\ args.segments[1] = args.segments[2]
    /\ Len(ret.segments) = 3
    /\ ret.segments[2] = ret.segments[3]
    /\ ret.segments[2].teams # ret.segments[1].teams
    /\ ret.segments[2].teams # <<>>

----------------------------------------------------------------------------
(* Zone scenario: attack_distribution_by_zone for one team of a table *)

ZoneRow(team, type, x, y) ==
    Row(Some(team), NameOf(Some(team)), Some(type), None, None, Some(1),
        Ts(0, 10, 0, <<0, 0, 0>>), x, y, None)

\* passes of team 1 on both sides of the zone borders (26.66, 26.67, 53.33,
\* 53.34) in the attacking half (x = 90) and outside it (x = 60), a pass
\* without a y, a defensive action, and a pass of team 2
ZoneRows ==
    { ZoneRow(1, "Pass", Some(x), Some(y)) :
        x \in {6000, 9000}, y \in {2666, 2667, 5333, 5334} }
    \cup { ZoneRow(1, "Pass", Some(9000), None),
           ZoneRow(1, "Pressure", Some(9000), Some(2666)),
           ZoneRow(2, "Shot", Some(7000), Some(4000)) }

InitZone ==
    /\ df \in { t \in Tables(ZoneRows, MaxRows, {}) : t.team_id_dtype = "int64" }
    /\ pc = "start"
    /\ args = NoArgs
    /\ win = None
    /\ ret = None
    /\ ret2 = None
    /\ client = None

CallAttackDistribution ==
    /\ pc = "start"
    /\ \E team_id \in {1, 2} :
          /\ args' = [team_id |-> team_id]
          /\ ret' = attack_distribution_by_zone(df, team_id)
    /\ pc' = "attack_distribution_by_zone"
    /\ UNCHANGED <<client, df, win, ret2>>

NextZone == CallAttackDistribution

SpecZone == InitZone /\ [][NextZone]_vars

ZoneShares(r) ==
    <<r.left_flank_attacks_pct, r.center_attacks_pct, r.right_flank_attacks_pct>>

\* C10: whenever attacking_half_actions > 0 the three zone shares are non-null
\* and add up to 1, every attacking-half event being counted in exactly one
\* zone; when attacking_half_actions = 0 the three shares are null.
C10_ZoneSharesSumToOne ==
    (pc = "attack_distribution_by_zone" /\ ~ret.raised) =>
        LET shares == ZoneShares(ret) IN
        /\ ret.attacking_half_actions > 0 =>
              /\ \A k \in 1..3 : notna(shares[k])
              /\ LET sum == RatAdd(shares[1][1], RatAdd(shares[2][1], shares[3][1]))
                 IN sum[1] = sum[2]
              /\ \A k \in 1..3 : shares[k][1][2] = ret.attacking_half_actions
              /\ shares[1][1][1] + shares[2][1][1] + shares[3][1][1]
                    = ret.attacking_half_actions
        /\ ret.attacking_half_actions = 0 => \A k \in 1..3 : isna(shares[k])

\* three attacking-half passes, two of them on the borders of the center zone
C10_Witness ==
    /\ pc = "attack_distribution_by_zone"
    /\ ret.attacking_half_actions = 3
    /\ ret.left_flank_attacks_pct = Some(<<1, 3>>)
    /\ ret.center_attacks_pct = Some(<<2, 3>>)
    /\ ret.right_flank_attacks_pct = Some(<<0, 3>>)
    /\ \E i, j \in DOMAIN df.rows :
          df.rows[i].y = Some(LeftFlankMaxY) /\ df.rows[j].y = Some(CenterMaxY)

----------------------------------------------------------------------------
(* Metric scenario: the metric functions on tables that lack columns *)

SparseRow(team, name, type, x, y) ==
    Row(team, name, type, None, None, None, None, x, y, None)

\* events of two teams, with and without a team name: a located pass, a shot
\* without location, an event of which only the team is known; and a located
\* pass of no team
SparseRows ==
    { SparseRow(Some(team), IF named THEN NameOf(Some(team)) ELSE None, k[1], k[2], k[3]) :
        team \in {1, 2}, named \in BOOLEAN,
        k \in { <<Some("Pass"), Some(9000), Some(4000)>>,
                <<Some("Shot"), None, None>>,
                <<None, None, None>> } }
    \cup { SparseRow(None, None, Some("Pass"), Some(9000), Some(4000)) }

\* pd.DataFrame([]), the table of no events: no rows and no columns
EmptyFrame == [rows |-> <<>>, cols |-> {}, team_id_dtype |-> "float64"]

InitMetric ==
    /\ df \in Tables(SparseRows, MaxSparseRows,
                     {"team_id", "team_name", "type_name", "shot_outcome", "x", "y"})
              \cup {EmptyFrame}
    /\ pc = "start"
    /\ args = NoArgs
    /\ win = None
    /\ ret = None
    /\ ret2 = None
    /\ client = None

\* `shots_ot = shots_on_target_by_team(df)`
CallShotsOnTarget ==
    /\ pc = "start"
    /\ ret' = shots_on_target_by_team(df)
    /\ pc' = "shots_on_target_by_team"
    /\ UNCHANGED <<client, df, args, win, ret2>>

\* `goals = goals_by_team(df)`, on the same table
CallGoalsByTeam ==
    /\ pc = "shots_on_target_by_team"
    /\ ret2' = goals_by_team(df)
    /\ pc' = "goals_by_team"
    /\ UNCHANGED <<client, df, args, win, ret>>

\* average_position_by_team(df): the dict, or the KeyError of df["x"]
CallAveragePosition ==
    /\ pc = "start"
    /\ ret' = [ raised |-> average_position_raises(df),
                value |-> IF average_position_raises(df) THEN EmptyDict
                          ELSE average_position_by_team(df) ]
    /\ pc' = "average_position_by_team"
    /\ UNCHANGED <<client, df, args, win, ret2>>

CallFinalThirdEntries ==
    /\ pc = "start"
    /\ ret' = [ raised |-> FALSE, value |-> final_third_entries_by_team(df) ]
    /\ pc' = "final_third_entries_by_team"
    /\ UNCHANGED <<client, df, args, win, ret2>>

NextMetric ==
    \/ CallComputeMatchMetrics
    \/ CallShotsOnTarget
    \/ CallGoalsByTeam
    \/ CallAveragePosition
    \/ CallFinalThirdEntries
    \/ CallAttackDistribution

SpecMetric == InitMetric /\ [][NextMetric]_vars

\* C11: compute_match_metrics on an empty event table does not raise and
\* returns the given label, an empty teams list and totals of 0 passes and
\* 0 shots.
C11_EmptyTableGivesEmptySegment ==
    (pc = "compute_match_metrics" /\ Len(df.rows) = 0) =>
        /\ ~ret.raised
        /\ ret.segment = args.label
        /\ ret.teams = <<>>
        /\ ret.totals = [total_passes |-> 0, total_shots |-> 0]

\* an empty table without the x and y columns, aggregated under the label "test"
C11_Witness ==
    /\ pc = "compute_match_metrics"
    /\ Len(df.rows) = 0
    /\ HasCol(df, "team_id") /\ ~HasCol(df, "x")
    /\ args.label = "test"
    /\ ret.segment = "test"

\* the number of Shot events of a team in the table
ShotsOf(t, tid) ==
    Cardinality({ i \in DOMAIN t.rows : /\ t.rows[i].team_id = Some(tid)
                                        /\ t.rows[i].type_name = Some("Shot") })

\* C12: on a table without a shot_outcome column, every team with at least one
\* Shot event has shots_on_target equal to its number of shots, and is present
\* in goals_by_team with the value 0.
C12_NoOutcomeColumnFallbacks ==
    (pc = "goals_by_team" /\ ~HasCol(df, "shot_outcome")) =>
        \A tid \in {1, 2} :
            ShotsOf(df, tid) > 0 =>
                /\ tid \in DOMAIN ret
                /\ ret[tid] = ShotsOf(df, tid)
                /\ tid \in DOMAIN ret2
                /\ ret2[tid] = 0

\* two shots of team 1 and no shot_outcome column
C12_Witness ==
    /\ pc = "goals_by_team"
    /\ ~HasCol(df, "shot_outcome")
    /\ ShotsOf(df, 1) = 2
    /\ ret[1] = 2
    /\ ret2[1] = 0

\* C13: on a non-empty table that has the team_id and type_name columns and
\* lacks another column (x and y, for one), neither compute_match_metrics nor
\* a metric function raises.
C13_NoRaiseOnMissingColumn ==
    (/\ pc \in {"compute_match_metrics", "average_position_by_team",
                "final_third_entries_by_team", "attack_distribution_by_zone"}
     /\ Len(df.rows) > 0
     /\ {"team_id", "type_name"} \subseteq df.cols
     /\ df.cols # AllCols) =>
        ~ret.raised

\* a field that holds a number (and so is not null)
IsNumber(v) == v \in Int

\* the team has an event with a non-null location in the table
HasLocatedEvent(t, tid) ==
    \E i \in DOMAIN t.rows :
        t.rows[i].team_id = Some(tid) /\ notna(t.rows[i].x) /\ notna(t.rows[i].y)

\* C14: in a Team Metrics Record of compute_match_metrics, avg_x and avg_y are
\* null (not a number) for a team without any located event, and
\* possession_share is null (not 0.0) when the segment has no Pass event.
C14_UnmetPreconditionIsNull ==
    MetricsReturned =>
        \A i \in DOMAIN ret.teams :
            LET rec == ret.teams[i] IN
            /\ ~HasLocatedEvent(df, rec.team_id) =>
                  ~IsNumber(rec.avg_x) /\ ~IsNumber(rec.avg_y)
            /\ ~HasPass(df) => ~IsNumber(rec.possession_share)

\* C15: two requested window specifications that differ in period or in
\* last_n_minutes, and select different events of the table, get different
\* segment labels.
C15_DifferentSpecsDifferentLabels ==
    pc = "multi_segment_returned" =>
        \A i, j \in DOMAIN args.segments :
            (/\ args.segments[i] # args.segments[j]
             /\ WindowOf(args.segments[i]).rows # WindowOf(args.segments[j]).rows) =>
                ret.segments[i + 1].segment # ret.segments[j + 1].segment

\* the events of a team that carry a team name, by position in the table
NamedEventsOf(t, tid) ==
    { i \in DOMAIN t.rows : t.rows[i].team_id = Some(tid) /\ notna(t.rows[i].team_name) }

\* C16: the team name reported for a team id is the first non-null team_name
\* among that team's events in table order; the fallback name appears only when
\* none of the team's events carries a name.
C16_FirstNonNullTeamName ==
    MetricsReturned =>
        \A i \in DOMAIN ret.teams :
            LET rec == ret.teams[i]
                named == NamedEventsOf(df, rec.team_id)
            IN named # {} => rec.team_name = df.rows[MinOf(named)].team_name[1]

\* the team ids that occur in the table
TeamIdsOf(t) ==
    { t.rows[i].team_id[1] : i \in { j \in DOMAIN t.rows : notna(t.rows[j].team_id) } }

\* C17: the teams list of a Segment Result is in strictly ascending order of
\* team_id and holds every team id of the table exactly once, whatever the
\* order of the events.
C17_TeamsSortedAndDistinct ==
    MetricsReturned =>
        /\ \A i \in 1..(Len(ret.teams) - 1) :
              ret.teams[i].team_id < ret.teams[i + 1].team_id
        /\ { ret.teams[i].team_id : i \in DOMAIN ret.teams } = TeamIdsOf(df)

\* the first event is of team 2, the next of team 1, the last of team 2 again
C17_Witness ==
    /\ MetricsReturned
    /\ Len(df.rows) = 3
    /\ df.rows[1].team_id = Some(2)
    /\ df.rows[2].team_id = Some(1)
    /\ df.rows[3].team_id = Some(2)
    /\ Len(ret.teams) = 2
    /\ ret.teams[1].team_id = 1
    /\ ret.teams[2].team_id = 2

----------------------------------------------------------------------------
(* Share scenario: every function that reports a share, on located events *)

ShareRow(team, type, x, y, end_x) ==
    Row(team, NameOf(team), Some(type), None, None, Some(1), Ts(0, 10, 0, <<0, 0, 0>>),
        Some(x), Some(y), end_x)

\* events on the pitch (x in [0, 120], y in [0, 80], in hundredths): passes of
\* team 1 played backward, forward, square and without an end location, on
\* both touchlines; a pass of team 2, a shot, and a pass of no team
ShareRows ==
    { ShareRow(Some(1), "Pass", 9000, 0, Some(7000)),
      ShareRow(Some(1), "Pass", 9000, 8000, Some(12000)),
      ShareRow(Some(1), "Pass", 7000, 4000, Some(7000)),
      ShareRow(Some(1), "Pass", 12000, 2667, None),
      ShareRow(Some(1), "Pass", 0, 4000, Some(3000)),
      ShareRow(Some(2), "Pass", 6000, 4000, Some(5000)),
      ShareRow(Some(1), "Shot", 10000, 5333, None),
      ShareRow(None, "Pass", 9000, 4000, Some(7000)) }

InitShare ==
    /\ df \in Tables(ShareRows, MaxRows, {})
    /\ pc = "start"
    /\ args = NoArgs
    /\ win = None
    /\ ret = None
    /\ ret2 = None
    /\ client = None

CallPassingConcentration ==
    /\ pc = "start"
    /\ \E team_id \in {1, 2} :
          /\ args' = [team_id |-> team_id]
          /\ ret' = passing_concentration(df, team_id)
    /\ pc' = "passing_concentration"
    /\ UNCHANGED <<client, df, win, ret2>>

NextShare ==
    \/ CallPossessionShare
    \/ CallComputeMatchMetrics
    \/ CallAttackDistribution
    \/ CallPassingConcentration

SpecShare == InitShare /\ [][NextShare]_vars

\* the ratio lies in [0, 1]
InUnit(r) == r[2] > 0 /\ 0 <= r[1] /\ r[1] <= r[2]

\* the share is null or lies in [0, 1]
NullOrInUnit(cell) == notna(cell) => InUnit(cell[1])

\* C18: every share lies in [0, 1] when present: the possession shares, the
\* left / center / right attack shares, final_third_dominance and
\* back_passes_pct, on tables whose coordinates are inside the pitch.
C18_SharesInUnitInterval ==
    /\ PossessionReturned => \A k \in DOMAIN ret : InUnit(ret[k])
    /\ MetricsReturned =>
          \A i \in DOMAIN ret.teams :
              ret.teams[i].possession_share \in 0..10000
    /\ (pc = "attack_distribution_by_zone" /\ ~ret.raised) =>
          /\ NullOrInUnit(ret.left_flank_attacks_pct)
          /\ NullOrInUnit(ret.center_attacks_pct)
          /\ NullOrInUnit(ret.right_flank_attacks_pct)
          /\ NullOrInUnit(ret.final_third_dominance)
    /\ (pc = "passing_concentration" /\ ~ret.raised) =>
          NullOrInUnit(ret.back_passes_pct)

\* one of three located passes of team 1 is played backward
C18_Witness ==
    /\ pc = "passing_concentration"
    /\ args.team_id = 1
    /\ ret.back_passes_pct = Some(<<1, 3>>)

----------------------------------------------------------------------------
(* Frame scenario: what a call leaves in the table it was given *)

InitFrame ==
    /\ df \in { t \in Tables(WinRows, MaxRows, {"period", "timestamp"}) :
                  t.team_id_dtype = "int64" }
    /\ pc = "start"
    /\ args = NoArgs
    /\ win = None
    /\ ret = None
    /\ ret2 = None
    /\ client = None

\* a second call on the same table and period with a number of minutes that is
\* not smaller
CallFilterLastNMinutesAgain ==
    /\ pc = "filter_last_n_minutes"
    /\ \E n2 \in { n \in WinMinutes : n >= args.n_minutes } :
          /\ args' = [n_minutes |-> args.n_minutes, period |-> args.period, n2 |-> n2]
          /\ ret2' = filter_last_n_minutes(df, n2, args.period)
    /\ df' = caller_table_after_filter_minutes(df)
    /\ pc' = "filter_last_n_minutes_again"
    /\ UNCHANGED <<client, win, ret>>

NextFrame ==
    \/ CallFilterByPeriod
    \/ CallFilterLastNMinutes
    \/ CallFilterLastNMinutesAgain
    \/ CallFilterFirstNMinutes
    \/ CallComputeMatchMetrics

SpecFrame == InitFrame /\ [][NextFrame]_vars

\* C19: no window filter and no aggregation call changes the table it is
\* given: the caller's table has the same rows, columns and values after the
\* call as before it.
C19_CallsLeaveTheTableAlone == [][df' = df]_vars

\* filter_last_n_minutes has computed the helper column and returned some of
\* the rows; the table given has no _seconds column
C19_Witness ==
    /\ pc = "filter_last_n_minutes"
    /\ HasCol(df, "period") /\ HasCol(df, "timestamp")
    /\ Len(win.rows) > 0
    /\ Len(win.rows) < Len(df.rows)
    /\ ~HasCol(df, "_seconds")

\* C20: every result of filter_last_n_minutes has exactly the columns of the
\* table given (no extra column) and holds only rows of that table, in every
\* edge case.
C20_LastNReturnsRowsOfInputWithItsColumns ==
    LastNReturned =>
        /\ win.cols = df.cols
        /\ \A k \in DOMAIN win.rows : \E i \in DOMAIN df.rows : win.rows[k] = df.rows[i]

----------------------------------------------------------------------------
(* reasoning/client.py: ReasoningClient *)

\* What one API attempt can bring: _call_api raises, or returns a response
\* with a text (valid JSON of the schema, empty, not JSON, JSON that is not
\* of the schema) and a usage_metadata.total_token_count
ApiOutcomes ==
    { [raises |-> TRUE, text |-> "", total_token_count |-> 0] }
    \cup [ raises : {FALSE}, text : {"valid", "empty", "bad_json", "bad_schema"},
           total_token_count : {0, 100} ]

\* _parse_response succeeds on this outcome of _call_api
ParseSucceeds(o) == ~o.raises /\ o.text = "valid"

\* the exceptions line 70 or 73 can raise on this outcome; the
\* `raise ValidationError(str)` of _parse_response raises ValidationError or,
\* where pydantic rejects the constructor call, TypeError
ErrorsOf(o) ==
    IF o.raises THEN {"APIError"}
    ELSE IF o.text \in {"empty", "bad_json"} THEN {"ValueError"}
    ELSE IF o.text = "bad_schema" THEN {"ValidationError", "TypeError"}
    ELSE {}

\* the ExplanationResponse parsed from a valid response
ParsedResponse(o) == [explanation |-> o.text, question_understood |-> TRUE]

\* `if attempt < self.config.max_retries - 1` is false
IsLastAttemptLate(attempt, max_retries) == ~(attempt < max_retries)
IsLastAttempt(attempt, max_retries) == ~(attempt < max_retries - 1)

\* __init__: the counters start at 0
NewClient(max_retries) ==
    [ total_tokens_used |-> 0, total_prompt_tokens |-> 0,
      total_completion_tokens |-> 0, max_retries |-> max_retries ]

\* reset_token_usage
reset_token_usage(c) ==
    [ c EXCEPT !.total_tokens_used = 0, !.total_prompt_tokens = 0,
               !.total_completion_tokens = 0 ]

\* get_token_usage
get_token_usage(c) ==
    [ total_tokens |-> c.total_tokens_used, prompt_tokens |-> c.total_prompt_tokens,
      completion_tokens |-> c.total_completion_tokens ]

----------------------------------------------------------------------------
(* Client scenario: one generate_explanation call of a new client *)

InitClient ==
    /\ client \in { NewClient(n) : n \in 0..MaxRetries }
    /\ df = None
    /\ pc = "start"
    /\ args = NoArgs
    /\ win = None
    /\ ret = None
    /\ ret2 = None

\* generate_explanation up to the loop; args holds its locals, the outcomes of
\* the attempts made (log), the waits done (slept) and the counter before the call
CallGenerateExplanation ==
    /\ pc = "start"
    /\ args' = [ attempt |-> 0, last_error |-> None, log |-> <<>>, slept |-> <<>>,
                 tokens_before |-> client.total_tokens_used ]
    /\ pc' = "for_attempt"
    /\ UNCHANGED <<client, df, win, ret, ret2>>

\* an attempt whose API call and parse succeed: `return self._parse_response(response)`
AttemptSucceeds ==
    /\ pc = "for_attempt"
    /\ args.attempt < client.max_retries
    /\ \E o \in ApiOutcomes :
          /\ ParseSucceeds(o)
          /\ args' = [args EXCEPT !.log = Append(@, [outcome |-> o, error |-> None])]
          /\ ret' = [raised |-> FALSE, value |-> ParsedResponse(o), error |-> None]
    /\ pc' = "returned"
    /\ UNCHANGED <<client, df, win, ret2>>

\* an attempt that raises: wait 2 ** attempt and go on, or re-raise on the last one
AttemptFails ==
    /\ pc = "for_attempt"
    /\ args.attempt < client.max_retries
    /\ \E o \in ApiOutcomes : \E e \in ErrorsOf(o) :
          LET logged == Append(args.log, [outcome |-> o, error |-> Some(e)])
          IN IF ~IsLastAttempt(args.attempt, client.max_retries)
             THEN /\ args' = [args EXCEPT !.log = logged, !.last_error = Some(e),
                                          !.slept = Append(@, 2 ^ args.attempt),
                                          !.attempt = @ + 1]
                  /\ pc' = "for_attempt"
                  /\ ret' = ret
             ELSE /\ args' = [args EXCEPT !.log = logged, !.last_error = Some(e)]
                  /\ pc' = "raised"
                  /\ ret' = [raised |-> TRUE, value |-> None, error |-> Some(e)]
    /\ UNCHANGED <<client, df, win, ret2>>

\* the loop is over without a return or a raise: lines 85-87
LoopExhausted ==
    /\ pc = "for_attempt"
    /\ ~(args.attempt < client.max_retries)
    /\ ret' = [ raised |-> TRUE, value |-> None,
                error |-> IF notna(args.last_error) THEN args.last_error
                          ELSE Some("RuntimeError") ]
    /\ pc' = "raised"
    /\ UNCHANGED <<client, df, args, win, ret2>>

CallGetTokenUsage ==
    /\ pc \in {"returned", "raised"}
    /\ ret2 = None
    /\ ret2' = get_token_usage(client)
    /\ UNCHANGED <<client, df, pc, args, win, ret>>

CallResetTokenUsage ==
    /\ pc \in {"returned", "raised"}
    /\ client' = reset_token_usage(client)
    /\ pc' = "reset_token_usage"
    /\ UNCHANGED <<df, args, win, ret, ret2>>

NextClient ==
    \/ CallGenerateExplanation
    \/ AttemptSucceeds
    \/ AttemptFails
    \/ LoopExhausted
    \/ CallGetTokenUsage
    \/ CallResetTokenUsage

SpecClient == InitClient /\ [][NextClient]_vars

\* C21: after a successful generate_explanation call total_tokens_used has
\* grown by the total token count of the response (0 -> 100 for a response
\* reporting 100 tokens).
C21_TokenCountersFollowTheCall ==
    pc = "returned" =>
        client.total_tokens_used =
            args.tokens_before + args.log[Len(args.log)].outcome.total_token_count

----------------------------------------------------------------------------
(* Properties of the filters of the frame scenario *)

FirstNReturned ==
    pc = "filter_first_n_minutes" /\ HasCol(df, "period") /\ HasCol(df, "timestamp")

\* the rows the claim says are kept: those of the given period (1 without
\* one) whose elapsed time is at most n minutes, in table order
RowsOfFirstN ==
    LET p == IF notna(args.period) THEN args.period[1] ELSE 1
        Kept(i) == /\ df.rows[i].period = Some(p)
                   /\ ElapsedMs(df.rows[i]) <= args.n_minutes * 1000
        idx == SelectSeq([i \in DOMAIN df.rows |-> i], Kept)
    IN [k \in DOMAIN idx |-> df.rows[idx[k]]]

Unreadable(r) == isna(r.timestamp) \/ ~r.timestamp[1].wf

\* the cutoff of filter_last_n_minutes for the reference period, in milliseconds
CutoffMs ==
    LET inRef == { i \in DOMAIN df.rows : df.rows[i].period = Some(ReferencePeriod) }
        latest == MaxOf({ ElapsedMs(df.rows[i]) : i \in inRef })
    IN (IF latest > 2700 * 1000 THEN latest ELSE 2700 * 1000) - args.n_minutes * 1000

----------------------------------------------------------------------------
(* Possession-loss scenario: defensive_zone_activity for one team of a table,
   then successful_pass_counts_by_team on the same table *)

LossRow(team, type, pout, x) ==
    Row(Some(team), NameOf(Some(team)), Some(type), pout, None, Some(1),
        Ts(0, 10, 0, <<0, 0, 0>>), x, Some(4000), None)

\* passes of team 1 without an outcome, completed and incomplete, in the
\* attacking third (x = 90) and outside it (x = 70), an incomplete pass without
\* an x, a dispossession, defensive actions, and an incomplete pass of team 2
LossRows ==
    { LossRow(1, "Pass", pout, Some(x)) :
        pout \in {None, Some("Complete"), Some("Incomplete")}, x \in {7000, 9000} }
    \cup { LossRow(1, "Pass", Some("Incomplete"), None),
           LossRow(1, "Dispossessed", None, Some(9000)),
           LossRow(1, "Pressure", None, Some(7000)),
           LossRow(1, "Tackle", None, Some(3000)),
           LossRow(2, "Pass", Some("Incomplete"), Some(9000)) }

InitLoss ==
    /\ df \in { t \in Tables(LossRows, MaxRows, {"pass_outcome"}) : t.team_id_dtype = "int64" }
    /\ pc = "start"
    /\ args = NoArgs
    /\ win = None
    /\ ret = None
    /\ ret2 = None
    /\ client = None

CallDefensiveZoneActivity ==
    /\ pc = "start"
    /\ \E team_id \in {1, 2} :
          /\ args' = [team_id |-> team_id]
          /\ ret' = defensive_zone_activity(df, team_id)
    /\ pc' = "defensive_zone_activity"
    /\ UNCHANGED <<client, df, win, ret2>>

CallSuccessfulPassCounts ==
    /\ pc = "defensive_zone_activity"
    /\ ret2' = successful_pass_counts_by_team(df)
    /\ pc' = "successful_pass_counts_by_team"
    /\ UNCHANGED <<client, df, args, win, ret>>

NextLoss == CallDefensiveZoneActivity \/ CallSuccessfulPassCounts

SpecLoss == InitLoss /\ [][NextLoss]_vars

\* the events of the team that are in the attacking third and are not passes
\* counted successful: passes with an outcome other than "Complete", and
\* events of other types
NotSuccessfulPassInAttackingThird(t, team_id) ==
    { i \in DOMAIN t.rows :
        /\ t.rows[i].team_id = Some(team_id)
        /\ notna(t.rows[i].x)
        /\ t.rows[i].x[1] > 80 * 100
        /\ ~(/\ t.rows[i].type_name = Some("Pass")
             /\ (~HasCol(t, "pass_outcome") \/ IsSuccessfulPass(t)[i])) }

\* C24: a pass that successful_pass_counts_by_team counts as successful (no
\* outcome, or outcome "Complete") is never among the possession losses in the
\* attacking third that defensive_zone_activity counts: every counted loss is
\* an event that is not a successful pass.
C24_SuccessfulPassIsNoLoss ==
    pc \in {"defensive_zone_activity", "successful_pass_counts_by_team"} =>
        ret.possession_losses_attacking_third
            <= Cardinality(NotSuccessfulPassInAttackingThird(df, args.team_id))

----------------------------------------------------------------------------
\* C25: in every Segment Result, for every team,
\* 0 <= passes_successful <= passes and 0 <= goals <= shots_on_target <= shots,
\* with the outcome columns and without them.
C25_CountsAreOrdered ==
    (pc = "compute_match_metrics" /\ ~ret.raised) =>
        \A i \in DOMAIN ret.teams :
            LET team == ret.teams[i] IN
            /\ 0 <= team.passes_successful
            /\ team.passes_successful <= team.passes
            /\ 0 <= team.goals
            /\ team.goals <= team.shots_on_target
            /\ team.shots_on_target <= team.shots

\* both outcome columns present: a team with an incomplete pass, a goal and a
\* shot without an outcome has fewer successful passes than passes and fewer
\* shots on target than shots
C25_Witness ==
    /\ pc = "compute_match_metrics"
    /\ ~ret.raised
    /\ {"pass_outcome", "shot_outcome"} \subseteq df.cols
    /\ \E i \in DOMAIN ret.teams :
          /\ ret.teams[i].passes_successful < ret.teams[i].passes
          /\ 0 < ret.teams[i].goals
          /\ ret.teams[i].shots_on_target < ret.teams[i].shots

----------------------------------------------------------------------------
(* Multi-segment scenario with shots: the same calls on tables of goals in the
   final third and a pass *)

BoundRow(team, type, sout, period, ts, x) ==
    Row(Some(team), NameOf(Some(team)), Some(type), None, sout, Some(period), ts,
        Some(x), Some(4000), None)

\* two goals of team 1 in period 2, inside and outside the last ten minutes,
\* and a pass of team 2 in period 1
BoundRows ==
    { BoundRow(1, "Shot", Some("Goal"), 2, Ts(0, 40, 0, <<>>), 10000),
      BoundRow(1, "Shot", Some("Goal"), 2, Ts(0, 10, 0, <<>>), 10000),
      BoundRow(2, "Pass", None, 1, Ts(0, 10, 0, <<>>), 6000) }

InitMultiShots ==
    /\ df \in { t \in Tables(BoundRows, MaxSegRows, {}) : t.team_id_dtype = "int64" }
    /\ pc = "start"
    /\ args = NoArgs
    /\ win = None
    /\ ret = None
    /\ ret2 = None
    /\ client = None

\* get_match_metrics for the window of one of the requested segments, on the
\* same match
CallGetMatchMetrics ==
    /\ pc = "multi_segment_returned"
    /\ \E i \in DOMAIN args.segments :
          ret2' = [ i |-> i,
                    segment |-> get_match_metrics(df, args.segments[i].period,
                                                  args.segments[i].last_n_minutes) ]
    /\ pc' = "get_match_metrics"
    /\ UNCHANGED <<client, df, args, win, ret>>

NextMultiShots == NextMulti \/ CallGetMatchMetrics

SpecMultiShots == InitMultiShots /\ [][NextMultiShots]_vars

\* the team record of a segment for a team id, as a set of at most one record
TeamOf(segment, tid) ==
    { segment.teams[j] : j \in { k \in DOMAIN segment.teams : segment.teams[k].team_id = tid } }

\* C26: in every Multi-Segment Response every requested segment is bounded by
\* the full_match segment: each team of a window segment is also a team of
\* full_match, with passes, shots, goals and final_third_entries <= its
\* full_match values, and the window's total_passes and total_shots are <= the
\* full_match totals.
C26_WindowBoundedByFullMatch ==
    pc = "multi_segment_returned" =>
        LET full == ret.segments[1] IN
        \A k \in 2..Len(ret.segments) :
            LET window == ret.segments[k] IN
            /\ window.totals.total_passes <= full.totals.total_passes
            /\ window.totals.total_shots <= full.totals.total_shots
            /\ \A i \in DOMAIN window.teams :
                  LET team == window.teams[i] IN
                  /\ TeamOf(full, team.team_id) # {}
                  /\ \A f \in TeamOf(full, team.team_id) :
                        /\ team.passes <= f.passes
                        /\ team.shots <= f.shots
                        /\ team.goals <= f.goals
                        /\ team.final_third_entries <= f.final_third_entries

\* the last ten minutes of period 2 hold one of the two goals of the match
C26_Witness ==
    /\ pc = "multi_segment_returned"
    /\ Len(ret.segments) >= 2
    /\ ret.segments[1].segment = "full_match"
    /\ ret.segments[1].totals.total_shots = 2
    /\ ret.segments[2].totals.total_shots = 1
    /\ \E i \in DOMAIN ret.segments[2].teams :
          /\ ret.segments[2].teams[i].goals = 1
          /\ ret.segments[2].teams[i].final_third_entries = 1
          /\ \A f \in TeamOf(ret.segments[1], ret.segments[2].teams[i].team_id) :
                f.goals = 2 /\ f.final_third_entries = 2

----------------------------------------------------------------------------
LastNReturnedAgain == pc = "filter_last_n_minutes_again"

\* how many rows of a sequence are the event e
CountOf(rows, e) == Cardinality({ i \in DOMAIN rows : rows[i] = e })

\* every event returned for n1 is returned for n2
MonotoneInN ==
    \A k \in DOMAIN win.rows :
        CountOf(win.rows, win.rows[k]) <= CountOf(ret2.rows, win.rows[k])

\* the events of the reference period, in table order
RowsOfReferencePeriod ==
    LET InRef(i) == df.rows[i].period = Some(ReferencePeriod)
        idx == SelectSeq([i \in DOMAIN df.rows |-> i], InRef)
    IN [k \in DOMAIN idx |-> df.rows[idx[k]]]

\* max(latest elapsed time of the reference period, 45:00), in milliseconds
EffectivePeriodLengthMs ==
    LET inRef == { i \in DOMAIN df.rows : df.rows[i].period = Some(ReferencePeriod) }
        latest == IF inRef = {} THEN 0 ELSE MaxOf({ ElapsedMs(df.rows[i]) : i \in inRef })
    IN IF latest > 2700 * 1000 THEN latest ELSE 2700 * 1000

\* C27 as stated: filter_last_n_minutes is monotone in n (for every table,
\* period and 0 <= n1 <= n2 every event returned for n1 is returned for n2), and
\* when 60*n is at least the effective period length the result is every event
\* of the reference period (taken on the tables that have the period and
\* timestamp columns, for a reference period that is given or present).
C27_MonotoneAndFullAtPeriodLength ==
    LastNReturnedAgain =>
        /\ MonotoneInN
        /\ (/\ HasCol(df, "period") /\ HasCol(df, "timestamp")
            /\ notna(args.period) \/ PeriodsPresent(df) # {}
            /\ args.n2 * 1000 >= EffectivePeriodLengthMs)
              => ret2.rows = RowsOfReferencePeriod

\* C27 amended: filter_last_n_minutes is monotone in n for every table and
\* period, and on a table that has the timestamp column and at least one event
\* with a (non-null) period, when 60*n is at least the effective period length
\* the result is every event of the reference period.
C27_MonotoneAndFullAtPeriodLengthIfAnyPeriod ==
    LastNReturnedAgain =>
        /\ MonotoneInN
        /\ (/\ HasCol(df, "timestamp")
            /\ PeriodsPresent(df) # {}
            /\ args.n2 * 1000 >= EffectivePeriodLengthMs)
              => ret2.rows = RowsOfReferencePeriod

\* period 2 with a latest event at 50:00: the last 10 minutes hold that event
\* alone, the last 50 minutes hold the three events of the period, the one with
\* the malformed timestamp included, and not the event of period 1
C27_Witness ==
    /\ LastNReturnedAgain
    /\ args = [n_minutes |-> 600, period |-> Some(2), n2 |-> 3000]
    /\ df.rows = << WinRow(Some(2), BadTs), WinRow(Some(1), Ts(0, 50, 0, <<0, 0, 0>>)),
                    WinRow(Some(2), Ts(0, 50, 0, <<0, 0, 0>>)) >>
    /\ win.rows = << WinRow(Some(2), Ts(0, 50, 0, <<0, 0, 0>>)) >>
    /\ ret2.rows = << WinRow(Some(2), BadTs), WinRow(Some(2), Ts(0, 50, 0, <<0, 0, 0>>)) >>

----------------------------------------------------------------------------
\* C28: get_match_metrics and get_match_metrics_multi_segment give the same
\* window the same result: for the same table and the same (period,
\* last_n_minutes) the segment of get_match_metrics equals the corresponding
\* segment of the multi-segment response, label included.
C28_SingleEqualsMultiSegment ==
    pc = "get_match_metrics" =>
        ret2.segment = ret.segments[ret2.i + 1]

----------------------------------------------------------------------------
\* the steps of the retry loop are taken as long as the call has not ended
SpecClientLive ==
    SpecClient /\ WF_vars(AttemptSucceeds \/ AttemptFails \/ LoopExhausted)

GenerateExplanationEnded == pc \in {"returned", "raised"}

Failed(entry) == entry.error # None

\* what the attempts made so far, the waits and the outcome of the call must be
RetryDiscipline ==
    pc # "start" =>
        LET log == args.log
            slept == args.slept
            max_retries == client.max_retries
        IN /\ Len(log) <= max_retries
           /\ \A k \in DOMAIN log : k < Len(log) => Failed(log[k])
           /\ Len(slept) = Cardinality({ k \in DOMAIN log : Failed(log[k]) /\ k < max_retries })
           /\ \A k \in DOMAIN slept : slept[k] = 2 ^ (k - 1)
           /\ pc = "for_attempt" => \A k \in DOMAIN log : Failed(log[k])
           /\ (pc = "returned" \/ (pc = "reset_token_usage" /\ ~ret.raised)) =>
                 /\ log # <<>>
                 /\ ~Failed(log[Len(log)])
                 /\ ret = [ raised |-> FALSE,
                            value |-> ParsedResponse(log[Len(log)].outcome),
                            error |-> None ]
           /\ (pc = "raised" \/ (pc = "reset_token_usage" /\ ret.raised)) =>
                 /\ ret.raised
                 /\ Len(log) = max_retries
                 /\ \A k \in DOMAIN log : Failed(log[k])
                 /\ ret.error = IF log = <<>> THEN Some("RuntimeError")
                                ELSE log[Len(log)].error

\* C29: generate_explanation makes at most max_retries attempts, in sequence;
\* it returns the parsed response of the first attempt that succeeds and makes
\* no further attempt; after a failed attempt that is not the last it waits
\* 2^attempt seconds and retries; if every attempt fails it raises the error of
\* the last one; it always terminates, with max_retries = 0 by raising.
C29_RetriesBoundedAndTerminates ==
    /\ []RetryDiscipline
    /\ (pc = "for_attempt") ~> GenerateExplanationEnded

\* three attempts allowed: two fail, with waits of 1 and 2 seconds, the third
\* succeeds and its response is returned
C29_Witness ==
    /\ pc = "returned"
    /\ client.max_retries = 3
    /\ Len(args.log) = 3
    /\ Failed(args.log[1]) /\ Failed(args.log[2]) /\ ~Failed(args.log[3])
    /\ args.slept = <<1, 2>>
    /\ ret.value = ParsedResponse(args.log[3].outcome)

----------------------------------------------------------------------------
(* ingestion/pipeline.py *)

\* PipelineResult()
NewPipelineResult ==
    [ success |-> TRUE, errors |-> <<>>, saved_raw_paths |-> <<>>,
      saved_processed_paths |-> <<>>, processed_match_ids |-> <<>> ]

\* PipelineResult.add_error
add_error(result, error) ==
    [result EXCEPT !.errors = Append(@, error), !.success = FALSE]

\* what the steps of one match can do: all succeed, the raw file is not found,
\* loading, normalizing or saving raises, or an exception other than
\* FileNotFoundError is raised while reading the cache (without the cache every
\* step has its own handler, and the load handler takes it)
MatchOutcomes ==
    {"ok", "events_not_found", "events_error", "normalize_error", "save_error",
     "pipeline_error"}

RawEventsPath(match_id) == [kind |-> "raw_events", match_id |-> match_id]
ProcessedPath(match_id) == [kind |-> "processed_events", match_id |-> match_id]
RawMatchesPath == [kind |-> "raw_matches", match_id |-> 0]

\* run_match_events_pipeline(match_id, config, use_cache), the steps behaving as
\* `outcome` says
run_match_events_pipeline(match_id, use_cache, outcome) ==
    LET result == NewPipelineResult
        id == ToString(match_id)
        loaded == IF use_cache THEN result
                  ELSE [result EXCEPT !.saved_raw_paths = Append(@, RawEventsPath(match_id))]
    IN IF outcome = "events_not_found" /\ use_cache
       THEN add_error(result, "Events file not found in cache for match " \o id)
       ELSE IF outcome \in {"events_not_found", "events_error", "pipeline_error"} /\ ~use_cache
       THEN add_error(result, "Failed to load events for match " \o id)
       ELSE IF outcome \in {"events_error", "pipeline_error"}
       THEN add_error(result, "Match pipeline failed for match " \o id)
       ELSE IF outcome = "normalize_error"
       THEN add_error(loaded, "Failed to normalize events for match " \o id)
       ELSE IF outcome = "save_error"
       THEN add_error(loaded, "Failed to save processed events for match " \o id)
       ELSE [loaded EXCEPT !.saved_processed_paths = Append(@, ProcessedPath(match_id))]

\* sequence concatenation of list.extend
Extend(list, other) == list \o other

\* `result.errors.extend(match_result.errors)` of the loop of run_pipeline
MergeErrors(result, match_result) ==
    [result EXCEPT !.errors = Extend(@, match_result.errors)]

\* one iteration of `for match_id in match_ids` of run_pipeline; `raises` is an
\* exception escaping the call for the match
process_match(result, match_id, use_cache, outcome, raises) ==
    IF raises
    THEN add_error(result, "Error processing match " \o ToString(match_id))
    ELSE LET match_result == run_match_events_pipeline(match_id, use_cache, outcome)
         IN IF match_result.success
            THEN [result EXCEPT
                    !.saved_raw_paths = Extend(@, match_result.saved_raw_paths),
                    !.saved_processed_paths = Extend(@, match_result.saved_processed_paths),
                    !.processed_match_ids = Append(@, match_id)]
            ELSE MergeErrors(result, match_result)

\* what steps 1-3 of run_pipeline can do before the loop
LoadOutcomes ==
    {"ok", "matches_not_found", "load_error", "unexpected_format",
     "none_requested_found", "pipeline_error"}

----------------------------------------------------------------------------
(* Pipeline scenario: run_match_events_pipeline for one match, or run_pipeline
   over the matches of a competition *)

InitPipeline ==
    /\ df = None
    /\ pc = "start"
    /\ args = NoArgs
    /\ win = None
    /\ ret = None
    /\ ret2 = None
    /\ client = None

CallRunMatchEventsPipeline ==
    /\ pc = "start"
    /\ \E match_id \in 1..MaxMatches, use_cache \in BOOLEAN, outcome \in MatchOutcomes :
          /\ args' = [match_id |-> match_id, use_cache |-> use_cache, outcome |-> outcome]
          /\ ret' = run_match_events_pipeline(match_id, use_cache, outcome)
    /\ pc' = "run_match_events_pipeline"
    /\ UNCHANGED <<client, df, win, ret2>>

\* run_pipeline up to the loop: the matches are loaded (and saved unless the
\* cache is used) and the match ids extracted and filtered
CallRunPipeline ==
    /\ pc = "start"
    /\ \E use_cache \in BOOLEAN, load \in LoadOutcomes, n \in 0..MaxMatches :
          LET result == NewPipelineResult
              loaded == IF use_cache THEN result
                        ELSE [result EXCEPT !.saved_raw_paths = Append(@, RawMatchesPath)]
          IN /\ args' = [use_cache |-> use_cache, load |-> load,
                         match_ids |-> [k \in 1..n |-> k], i |-> 1, outcomes |-> <<>>]
             /\ IF load = "matches_not_found" /\ use_cache
                THEN /\ ret' = add_error(result, "Matches file not found in cache")
                     /\ pc' = "run_pipeline_returned"
                ELSE IF load \in {"matches_not_found", "load_error"} /\ ~use_cache
                THEN /\ ret' = add_error(result, "Failed to load matches")
                     /\ pc' = "run_pipeline_returned"
                ELSE IF load \in {"load_error", "pipeline_error"}
                THEN /\ ret' = add_error(result, "Pipeline failed")
                     /\ pc' = "run_pipeline_returned"
                ELSE IF load = "unexpected_format"
                THEN /\ ret' = add_error(loaded, "Unexpected matches format")
                     /\ pc' = "run_pipeline_returned"
                ELSE IF load = "none_requested_found"
                THEN /\ ret' = add_error(loaded, "None of the requested match IDs found in matches")
                     /\ pc' = "run_pipeline_returned"
                ELSE /\ ret' = loaded
                     /\ pc' = "for_match"
    /\ UNCHANGED <<client, df, win, ret2>>

\* one iteration of `for match_id in match_ids`
ForMatch ==
    /\ pc = "for_match"
    /\ args.i <= Len(args.match_ids)
    /\ \E outcome \in MatchOutcomes, raises \in BOOLEAN :
          /\ raises => outcome = "pipeline_error"
          /\ ret' = process_match(ret, args.match_ids[args.i], args.use_cache, outcome, raises)
          /\ args' = [args EXCEPT !.i = @ + 1,
                                  !.outcomes = Append(@, IF raises THEN "raises" ELSE outcome)]
    /\ UNCHANGED <<client, df, pc, win, ret2>>

\* `return result` after the loop
ReturnPipeline ==
    /\ pc = "for_match"
    /\ args.i > Len(args.match_ids)
    /\ pc' = "run_pipeline_returned"
    /\ UNCHANGED <<client, df, args, win, ret, ret2>>

NextPipeline ==
    \/ CallRunMatchEventsPipeline
    \/ CallRunPipeline
    \/ ForMatch
    \/ ReturnPipeline

SpecPipeline == InitPipeline /\ [][NextPipeline]_vars

PipelineReturned == pc \in {"run_pipeline_returned", "run_match_events_pipeline"}

\* C30: a PipelineResult returned by run_pipeline or run_match_events_pipeline
\* has success == (errors is empty), so success is False whenever the errors of
\* a failed match are recorded in it, and as many processed_match_ids as
\* saved_processed_paths.
C30_SuccessIffNoErrors ==
    PipelineReturned =>
        /\ ret.success = (ret.errors = <<>>)
        /\ Len(ret.processed_match_ids) = Len(ret.saved_processed_paths)

====
